---- MODULE Spec2Model ----
(***************************************************************************)
(* Model of the utterance segmentation and turn-taking engine of TARS:     *)
(* STTManager (src/src/modules/module_stt.py) with the helpers of          *)
(* audio_utils.py, the EOUDetector of module_turn_detector.py, and the     *)
(* approval gate of the MCP client of module_mcp.py.                       *)
(*                                                                         *)
(* Reading of the source.  STTManager calls self.prepare_audio_data,       *)
(* self.amplify_audio, self.play_beep and self._init_progress_bar, and     *)
(* reads self.conversation, self.turn_detector and                         *)
(* self.SPEECH_END_SILENCE; the class body assigns none of them.  The      *)
(* model takes them as present on the instance: the helper names are the   *)
(* functions of audio_utils.py of the same name (amplify_audio with        *)
(* self.amp_gain), conversation is a list that starts empty, turn_detector *)
(* is an EOUDetector.  A frame is represented by the RMS level of its      *)
(* amplified samples (0 for a frame whose samples are all zero) together   *)
(* with what the collaborators answer for it.                              *)
(***************************************************************************)
EXTENDS Integers, Sequences, FiniteSets, TLC

\* ---------------------------------------------------------------- bounds
\* CONFIG['STT']['speechdelay'], the value of self.MAX_SILENT_FRAMES.
SpeechDelay == 2

\* The raw scores of the estimator that are explored: k / RawSteps.
RawSteps == 10
\* How many times the application calls start().
MaxStarts == 3
\* How many capabilities the MCP client executes.
MaxExecutions == 2

\* ------------------------------------------------------ program constants
MAX_RECORDING_FRAMES == 100
\* self.silence_margin = 3.5, kept as the fraction MarginNum / MarginDen.
MarginNum == 7
MarginDen == 2
\* should_respond = eou_prob > 0.6, probabilities in thousandths.
EouThreshold == 600
\* self.conversation[-3:]
WindowSize == 3
\* RIFF header that wave.open writes on close; a frame is 4000 int16 samples.
WavHeaderBytes == 44
FrameBytes == 8000

\* _measure_background_noise: total_frames = 20.
total_frames == 20
\* self.silence_threshold = max(median_rms, 10)
ThresholdFloor == 10
\* np.percentile(background_rms, [25, 75])
Q1Percent == 25
Q3Percent == 75
\* 1.5 * iqr, kept as the fraction FenceNum / FenceDen.
FenceNum == 3
FenceDen == 2
\* The factors of EOUDetector.__call__, in twentieths: 0.3, 0.85, 0.9,
\* 1.15, 0.95 and 0.8.
FactorDen == 20
EllipsisFactor == 6
ShortFactor == 17
HesitationFactor == 18
CompleteFactor == 23
UncertaintyFactor == 19
CompoundFactor == 16
\* 'short_utterance': len(words) <= 2
ShortWords == 2

MAX_SILENT_FRAMES == SpeechDelay

\* None, for an attribute or a value that holds a number.
NoneVal == -1
\* None, for a transcription result.
NoText == "None"
\* No acknowledgment phrase.
NoResponse == "None"
\* amp_gain: float = 4.0, a gain being kept as a fraction.
DefaultGain == [num |-> 4, den |-> 1]

\* Amplified RMS levels a frame can have: all-zero samples (no RMS), a
\* near-silent frame, a frame between the calibrated threshold and the
\* margin threshold, and a frame above the margin threshold.
Levels == {0, 1, 40, 130}
\* self.silence_threshold after __init__: None when calibration collected no
\* sample, otherwise wake_silence_threshold * silence_margin.
Thresholds == {NoneVal, 35}
\* self.SPEECH_END_SILENCE, the cap _is_silence_detected_silero compares the
\* run with.  The class never assigns it: it is whatever the application
\* configured, the same as MAX_SILENT_FRAMES or not.
SpeechEndSilences == {MAX_SILENT_FRAMES, MAX_SILENT_FRAMES + 1}
\* What the voice-activity model answers for a frame.
SileroOutcomes == {"spans", "empty", "error"}
\* Texts a transcriber can return.
Texts == {"t1"}
\* Values the turn detector can return, in thousandths.
EouProbs == {0, 600, 601, 1000}

\* RMS levels an ambient frame can have during calibration: all-zero samples
\* (no RMS), a very quiet room, a quiet room, a transient.
NoiseLevels == {0, 2, 10, 100}
\* No frame has been read.
NoFrame == [level |-> NoneVal, outcome |-> "none"]
\* background_rms_values = []
NoSamples == <<>>

\* A probability of the turn detector is a whole number of units, One of
\* them making 1.0: a raw score k / RawSteps keeps a whole number of units
\* through the five factors that can apply to it together.
Step == FactorDen * FactorDen * FactorDen * FactorDen * FactorDen
One == RawSteps * Step
RawScores == {k * Step : k \in 0..RawSteps}

\* An utterance as the turn detector reads it: the words of the stripped
\* text in lower case (the patterns ignore case) and the punctuation the
\* text ends with ("U+2026" is the one-character ellipsis).
Yes == [words |-> <<"yes">>, tail |-> "."]
IThinkMaybe == [words |-> <<"i", "think", "maybe">>, tail |-> "..."]
TurnItOff == [words |-> <<"turn", "it", "off">>, tail |-> "."]
UmEllipsis == [words |-> <<"um">>, tail |-> "U+2026"]
OkayThen == [words |-> <<"okay", "then">>, tail |-> ""]
WellEllipsis == [words |-> <<"well">>, tail |-> "..."]
UmIWasThinking == [words |-> <<"um", "i", "was", "thinking">>, tail |-> "..."]
Utterances == {Yes, IThinkMaybe, TurnItOff, UmEllipsis, OkayThen,
               WellEllipsis, UmIWasThinking}

Processors == {"vosk", "whisper", "silero", "external"}
WakeProcessors == {"pocketsphinx", "picovoice"}
VadMethods == {"rms", "silero"}

VARIABLES
    stt_processor,        \* config["STT"]["stt_processor"]
    wake_word_processor,  \* config["STT"]["wake_word_processor"]
    vadmethod,            \* self.vadmethod
    silence_threshold,    \* self.silence_threshold
    speech_end_silence,   \* self.SPEECH_END_SILENCE
    running,              \* self.running
    shutdown,             \* self.shutdown_event.is_set()
    stop_pc,              \* the caller inside stop(): "idle", "joining", "returned"
    pc,                   \* where the worker thread is
    polls,                \* parity of the chunks the wake detector has consumed
    wake_result,          \* what the last _detect_wake_word returned
    detected_speech,      \* local of the backend that records
    silent_frames,        \* local of the backend that records
    frames_read,          \* iterations of its recording loop so far
    buffered,             \* frames written to the wave buffer / fed to the recognizer
    result,               \* what the backend returned to _transcribe_utterance
    conversation,         \* self.conversation, the texts of its turns
    on_wake,              \* wake_word_callback invocations in this cycle
    on_utterance,         \* utterance_callback invocations in this cycle
    on_post,              \* post_utterance_callback invocations in this cycle
    transcriber_calls,    \* transcriber invocations in this cycle
    all_loud,             \* every frame of this recording was above the margin threshold
    all_quiet,            \* every frame of this recording had RMS ~ 0
    discarded,            \* the recording ended on silence with no speech detected
    ended_by_silence,     \* the recording ended on silence after speech
    stop_in_recording,    \* stop() was called while the worker was recording
    wake_failed,          \* the wake detector raised in this cycle
    eou_prob,             \* what self.turn_detector returned in this cycle, in thousandths
    raw_probability,      \* what calculate_eou_probability returned to __call__
    eou_probability,      \* what EOUDetector.__call__ returned
    noise_frames,         \* iterations of the loop of _measure_background_noise so far
    background_rms_values,\* its list of samples, up to their order
    wake_silence_threshold, \* self.wake_silence_threshold
    data,                 \* the frame last handed to a classification or to the calibration on its own
    is_silence,           \* what that classification returned first
    threads,              \* where each thread created by start() is, oldest first
    wake_response,        \* the phrase the detection that just returned passed to wake_word_callback
    amp_gain,             \* self.amp_gain, the gain amplify_audio is called with
    sample,               \* the int16 sample last handed to amplify_audio on its own
    amplified,            \* what amplify_audio returned for it
    risk_level,           \* MCPServerConfig.risk_level of the server
    sessions,             \* the server is in MCPClient.sessions and server_configs
    query,                \* the query of the last process_query
    approved,             \* what verify_operation did in it: "none", "approved", "cancelled", "raised"
    operation_risk,       \* the operation_risk verify_operation computed in it
    choice,               \* the last choice verify_operation read in it
    executed,             \* calls of _execute_capability so far
    returned,             \* what that process_query returned: "none", "result", "cancelled", "error"
    conversation_context  \* MCPClient.conversation_context[server_name], the queries of its entries

vars == <<stt_processor, wake_word_processor, vadmethod, silence_threshold,
          speech_end_silence, running, shutdown, stop_pc, pc, polls,
          wake_result, detected_speech,
          silent_frames, frames_read, buffered, result,
          conversation, on_wake, on_utterance, on_post, transcriber_calls,
          all_loud, all_quiet, discarded, ended_by_silence, stop_in_recording,
          wake_failed, eou_prob, raw_probability, eou_probability,
          noise_frames, background_rms_values, wake_silence_threshold,
          data, is_silence, threads, wake_response, amp_gain, sample,
          amplified, risk_level, sessions, query, approved, operation_risk,
          choice, executed, returned, conversation_context>>

config == <<stt_processor, wake_word_processor, vadmethod, silence_threshold,
            speech_end_silence>>
\* What _measure_background_noise leaves behind.
calibration == <<noise_frames, background_rms_values, wake_silence_threshold>>
\* A frame classified on its own.
frame == <<data, is_silence>>
\* A call of amplify_audio on its own.
amplifier == <<amp_gain, sample, amplified>>
\* The MCP client and its server.
mcp == <<risk_level, sessions, query, approved, operation_risk, choice,
         executed, returned, conversation_context>>
\* A call of the turn detector on its own.
detector == <<raw_probability, eou_probability>>
caller == <<running, shutdown, stop_pc, stop_in_recording>>
locals == <<detected_speech, silent_frames, frames_read, buffered>>
history == <<all_loud, all_quiet, discarded, ended_by_silence>>
callbacks == <<on_wake, on_utterance, on_post, transcriber_calls>>
cycle == <<wake_result, wake_failed, result, eou_prob, callbacks, history>>

\* ------------------------------------------------------------ audio_utils
\* Variant: an all-zero frame has the RMS 0.
prepare_audio_data_Zero(level) == level

\* prepare_audio_data: None for an all-zero frame, the RMS otherwise.
prepare_audio_data(level) == IF level = 0 THEN NoneVal ELSE level

\* ------------------------------------------------------------------- VAD
Verdict(sil, ds, sf) ==
    [is_silence |-> sil, detected_speech |-> ds, silent_frames |-> sf]

\* Variant: the comparison with the margin threshold reversed.
AboveMargin_Reversed(rms, threshold) == rms * MarginDen < threshold * MarginNum

\* Variant: a frame at the margin threshold counted as speech.
AboveMargin_AtOrAbove(rms, threshold) == rms * MarginDen >= threshold * MarginNum

\* rms > self.silence_threshold * self.silence_margin
AboveMargin(rms, threshold) == rms * MarginDen > threshold * MarginNum

\* Variant: a frame with no RMS counted as a silent frame.
_is_silence_detected_rms_CountsNone(level, threshold, ds, sf) ==
    LET rms == prepare_audio_data(level) IN
    IF threshold = NoneVal THEN Verdict(FALSE, ds, sf)
    ELSE IF rms # NoneVal /\ AboveMargin(rms, threshold) THEN Verdict(FALSE, TRUE, 0)
    ELSE IF sf + 1 > MAX_SILENT_FRAMES THEN Verdict(TRUE, ds, sf + 1)
    ELSE Verdict(FALSE, ds, sf + 1)

\* Variant: a frame below the margin threshold clears detected_speech.
_is_silence_detected_rms_ResetsSpeech(level, threshold, ds, sf) ==
    LET rms == prepare_audio_data(level) IN
    IF threshold = NoneVal THEN Verdict(FALSE, ds, sf)
    ELSE IF rms = NoneVal THEN Verdict(FALSE, ds, sf)
    ELSE IF AboveMargin(rms, threshold) THEN Verdict(FALSE, TRUE, 0)
    ELSE IF sf + 1 > MAX_SILENT_FRAMES THEN Verdict(TRUE, FALSE, sf + 1)
    ELSE Verdict(FALSE, FALSE, sf + 1)

\* Variant: the silence cap compared one frame too late.
_is_silence_detected_rms_LateCap(level, threshold, ds, sf) ==
    LET rms == prepare_audio_data(level) IN
    IF threshold = NoneVal THEN Verdict(FALSE, ds, sf)
    ELSE IF rms = NoneVal THEN Verdict(FALSE, ds, sf)
    ELSE IF AboveMargin(rms, threshold) THEN Verdict(FALSE, TRUE, 0)
    ELSE IF sf + 1 > MAX_SILENT_FRAMES + 1 THEN Verdict(TRUE, ds, sf + 1)
    ELSE Verdict(FALSE, ds, sf + 1)

\* STTManager._is_silence_detected_rms (the second definition, which is the
\* one the class keeps).  threshold = None makes line 792 raise, and the
\* except clause returns the arguments unchanged.
_is_silence_detected_rms(level, threshold, ds, sf) ==
    LET rms == prepare_audio_data(level) IN
    IF threshold = NoneVal THEN Verdict(FALSE, ds, sf)
    ELSE IF rms = NoneVal THEN Verdict(FALSE, ds, sf)
    ELSE IF AboveMargin(rms, threshold) THEN Verdict(FALSE, TRUE, 0)
    ELSE IF sf + 1 > MAX_SILENT_FRAMES THEN Verdict(TRUE, ds, sf + 1)
    ELSE Verdict(FALSE, ds, sf + 1)

\* Variant: an error of the model counted as a silent frame.
_is_silence_detected_silero_ErrorIsSilence(level, outcome, threshold, cap, ds, sf) ==
    IF outcome = "spans" THEN Verdict(FALSE, TRUE, 0)
    ELSE IF sf + 1 > cap THEN Verdict(TRUE, ds, sf + 1)
    ELSE Verdict(FALSE, ds, sf + 1)

\* STTManager._is_silence_detected_silero.  The lines of the source that call
\* the estimator (between 731 and 733) are missing; outcome is what they
\* leave in speech_ts.  outcome "error" stands for the
\* model not being loaded or the estimator raising, and threshold = None
\* makes line 731 raise: all three hand the frame to
\* _is_silence_detected_rms with the arguments unchanged.
_is_silence_detected_silero(level, outcome, threshold, cap, ds, sf) ==
    IF threshold = NoneVal THEN _is_silence_detected_rms(level, threshold, ds, sf)
    ELSE IF outcome = "spans" THEN Verdict(FALSE, TRUE, 0)
    ELSE IF outcome = "empty" THEN
        IF sf + 1 > cap THEN Verdict(TRUE, ds, sf + 1)
        ELSE Verdict(FALSE, ds, sf + 1)
    ELSE _is_silence_detected_rms(level, threshold, ds, sf)

\* STTManager.voice_activity_detection_main.  With threshold = None and a
\* frame that has an RMS, line 691 raises and the except clause returns the
\* arguments unchanged.
voice_activity_detection_main(level, outcome, method, threshold, cap, ds, sf) ==
    IF prepare_audio_data(level) # NoneVal /\ threshold = NoneVal
    THEN Verdict(FALSE, ds, sf)
    ELSE IF method = "silero"
    THEN _is_silence_detected_silero(level, outcome, threshold, cap, ds, sf)
    ELSE _is_silence_detected_rms(level, threshold, ds, sf)

\* ------------------------------------------------------------ life cycle
\* MCPClient.__init__: no server is connected; risk_level is the default of
\* MCPServerConfig.
NoServer ==
    /\ risk_level = "medium"
    /\ sessions = FALSE

\* What __init__ and the class body leave in the attributes other than the
\* configuration and the thresholds, with no thread started and no cycle run.
NotStarted ==
    /\ running = FALSE
    /\ shutdown = FALSE
    /\ stop_pc = "idle"
    /\ polls = 0
    /\ wake_result = FALSE
    /\ detected_speech = FALSE
    /\ silent_frames = 0
    /\ frames_read = 0
    /\ buffered = 0
    /\ result = NoText
    /\ conversation = <<>>
    /\ on_wake = 0
    /\ on_utterance = 0
    /\ on_post = 0
    /\ transcriber_calls = 0
    /\ all_loud = TRUE
    /\ all_quiet = TRUE
    /\ discarded = FALSE
    /\ ended_by_silence = FALSE
    /\ stop_in_recording = FALSE
    /\ wake_failed = FALSE
    /\ eou_prob = NoneVal
    /\ data = NoFrame
    /\ is_silence = FALSE
    /\ threads = <<>>
    /\ wake_response = NoResponse
    /\ sample = 0
    /\ amplified = 0
    /\ query = <<>>
    /\ approved = "none"
    /\ returned = "none"
    /\ operation_risk = "none"
    /\ choice = NoneVal
    /\ executed = 0
    /\ conversation_context = <<>>

\* The state after __init__.  A configuration value that the configured
\* backend never reads is given one value only: _transcribe_with_vosk does
\* not read vadmethod, and SPEECH_END_SILENCE is read only by the model-based
\* VAD with a calibrated threshold.  The three buffering backends run the
\* same recording loop around voice_activity_detection_main: the model-based
\* VAD is explored with the faster-whisper backend.
Init ==
    /\ stt_processor \in Processors
    /\ wake_word_processor \in WakeProcessors
    /\ vadmethod \in (IF stt_processor = "whisper" THEN VadMethods ELSE {"rms"})
    /\ silence_threshold \in Thresholds
    /\ speech_end_silence \in
           (IF vadmethod = "silero" /\ silence_threshold # NoneVal
            THEN SpeechEndSilences ELSE {MAX_SILENT_FRAMES})
    /\ pc = "idle"
    /\ NotStarted
    /\ amp_gain = DefaultGain
    /\ NoServer
    /\ raw_probability = NoneVal
    /\ eou_probability = NoneVal
    /\ noise_frames = total_frames
    /\ background_rms_values = NoSamples
    /\ wake_silence_threshold =
           (IF silence_threshold = NoneVal THEN NoneVal
            ELSE (silence_threshold * MarginDen) \div MarginNum)

\* STTManager.start, called once by the application.
Start ==
    /\ pc = "idle"
    /\ running' = TRUE
    /\ pc' = "loop"
    /\ UNCHANGED <<config, amplifier, mcp, wake_response,
                   calibration, detector, frame, threads,
                   shutdown, stop_pc,
                   stop_in_recording, polls, locals,
                   conversation, cycle>>

\* STTManager.stop up to the join.
Stop ==
    /\ pc # "idle"
    /\ stop_pc = "idle"
    /\ running' = FALSE
    /\ shutdown' = TRUE
    /\ stop_pc' = "joining"
    /\ stop_in_recording' = (pc = "recording")
    /\ UNCHANGED <<config, amplifier, mcp, wake_response,
                   calibration, detector, frame, threads,
                   pc, polls, locals, conversation, cycle>>

\* self.thread.join() returns once the worker thread has ended.
Join ==
    /\ stop_pc = "joining"
    /\ pc \in {"stopped", "crashed"}
    /\ stop_pc' = "returned"
    /\ UNCHANGED <<config, amplifier, mcp, wake_response,
                   calibration, detector, frame, threads,
                   running, shutdown,
                   stop_in_recording, pc, polls,
                   locals, conversation, cycle>>

\* ---------------------------------------------------------- session loop
\* while self.running and not self.shutdown_event.is_set()
LoopCondition(run, shut) == run /\ ~shut

\* The loop condition of _stt_processing_loop.  The variables that observe
\* one cycle are cleared here, at the top of every iteration.
LoopCheck ==
    /\ pc = "loop"
    /\ pc' = IF LoopCondition(running, shutdown) THEN "detect" ELSE "stopped"
    /\ wake_result' = FALSE
    /\ wake_failed' = FALSE
    /\ result' = NoText
    /\ eou_prob' = NoneVal
    /\ on_wake' = 0
    /\ on_utterance' = 0
    /\ on_post' = 0
    /\ transcriber_calls' = 0
    /\ all_loud' = TRUE
    /\ all_quiet' = TRUE
    /\ discarded' = FALSE
    /\ ended_by_silence' = FALSE
    /\ wake_response' = NoResponse
    /\ UNCHANGED <<config, amplifier, mcp,
                   calibration, detector, frame, threads,
                   caller, polls, locals, conversation>>

\* Variant: the utterance is transcribed whatever the detection returned.
LoopBody_Ungated(ret) == "transcribe"

\* The loop body: if self._detect_wake_word(): self._transcribe_utterance()
LoopBody(ret) == IF ret THEN "transcribe" ELSE "loop"

\* Where an error of the cue or of the character name leaves the worker:
\* neither is inside a try, so it leaves _detect_wake_word and the loop, and
\* the thread ends.
SetupError == "crashed"

\* _detect_wake_word up to the dispatch: the cue and the character name.
DetectWakeWord ==
    /\ pc = "detect"
    /\ \E ok \in BOOLEAN : pc' = IF ok THEN "listening" ELSE SetupError
    /\ UNCHANGED <<config, amplifier, mcp, wake_response,
                   calibration, detector, frame, threads,
                   caller, polls, locals,
                   conversation, cycle>>

\* What one poll of the wake detector can do.  "nomatch": the chunk or phrase
\* holds no wake word; "match": it does and the acknowledgment is emitted;
\* "callback_error": it does and wake_word_callback raises; "error": the
\* detector raises; "beep_error": the cue of the acknowledgment raises;
\* "end": the phrase stream of LiveSpeech ends.
PollOutcomes(processor) ==
    IF processor = "pocketsphinx"
    THEN {"nomatch", "match", "callback_error", "error", "beep_error", "end"}
    ELSE {"nomatch", "match", "callback_error", "error"}

\* The outcomes in which the detector itself failed: the recorder, the
\* keyword spotter or the phrase stream raised, or the cue or the character
\* name of the acknowledgment did (pocketsphinx, where they are not in a try
\* of their own).
DetectorFailures == {"error", "beep_error"}

\* Variant: an error of the detector counted as a match.
DetectorReturn_ErrorMatches(o) == o \in {"match", "error", "beep_error"}

\* What the detector returns to _detect_wake_word: True after the
\* acknowledgment, False from the except clause (lines 621-624 and 668-670)
\* and when the phrase stream ends.
DetectorReturn(o) == o = "match"

\* STTManager.WAKE_WORD_RESPONSES
WAKE_WORD_RESPONSES ==
    {"Oh! You called?", "Took you long enough. Yes?", "Finally!",
     "Oh? Did you need me?", "Anything you need just ask.",
     "O yea, Now, what do you need?", "You have my full attention.",
     "You rang?", "hum yea?", "Finally, I was about to lose my mind."}

\* Variant: the acknowledgment also emitted when the detector raised.
Acknowledged_OnError(o) == o \in {"match", "callback_error", "error"}

\* The outcomes in which wake_response = random.choice(...) is reached and
\* handed to wake_word_callback.
Acknowledged(o) == o \in {"match", "callback_error"}

\* One iteration of the detector loop of _detect_wake_word_picovoice or
\* _detect_wake_word_pocketsphinx, with the return into the session loop.
\* Neither loop reads self.running or self.shutdown_event.
PollWakeWord ==
    /\ pc = "listening"
    /\ \E o \in PollOutcomes(wake_word_processor),
          phrase \in WAKE_WORD_RESPONSES :
        IF o = "nomatch"
        THEN /\ polls' = 1 - polls
             /\ UNCHANGED <<pc, wake_result, wake_failed, on_wake,
                            wake_response>>
        ELSE /\ polls' = 0
             /\ wake_result' = DetectorReturn(o)
             /\ wake_failed' = (o \in DetectorFailures)
             /\ on_wake' = IF Acknowledged(o) THEN on_wake + 1 ELSE on_wake
             /\ wake_response' = IF Acknowledged(o) THEN phrase
                                 ELSE wake_response
             /\ pc' = LoopBody(DetectorReturn(o))
    /\ UNCHANGED <<config, amplifier, mcp,
                   calibration, detector, frame, threads,
                   caller, locals, result,
                   eou_prob, conversation, on_utterance, on_post,
                   transcriber_calls, history>>

\* -------------------------------------------------------------- recording
\* _transcribe_utterance up to the first frame: the backend is chosen, its
\* locals are set and the input stream is opened.  The phrase of the
\* acknowledgment is followed up to here.  An error there (no input
\* device) is caught by the except clause of _transcribe_utterance.
BeginRecording ==
    /\ pc = "transcribe"
    /\ \E ok \in BOOLEAN : pc' = IF ok THEN "recording" ELSE "loop"
    /\ detected_speech' = FALSE
    /\ silent_frames' = 0
    /\ frames_read' = 0
    /\ buffered' = 0
    /\ wake_response' = NoResponse
    /\ UNCHANGED <<config, amplifier, mcp,
                   calibration, detector, frame, threads,
                   caller, polls, conversation, cycle>>

\* The classification a backend applies to a frame: _transcribe_with_vosk
\* calls _is_silence_detected_rms, the others voice_activity_detection_main.
Classify(processor, level, outcome) ==
    IF processor = "vosk"
    THEN _is_silence_detected_rms(level, silence_threshold, detected_speech,
                                  silent_frames)
    ELSE voice_activity_detection_main(level, outcome, vadmethod,
                                       silence_threshold, speech_end_silence,
                                       detected_speech, silent_frames)

\* Variant: a recording loop that runs one iteration too many.
LoopContinues_OneMore(n) == n <= MAX_RECORDING_FRAMES

\* for _ in range(self.MAX_RECORDING_FRAMES): is there another iteration
\* after n of them.
LoopContinues(n) == n < MAX_RECORDING_FRAMES

\* Variant: a silence verdict always breaks, also with no speech detected.
OnSilence_AlwaysBreak(ds) == "decode"

\* if is_silence: if not detected_speech: return None / break
\* Where the backend goes on a silence verdict.
OnSilence(ds) == IF ds THEN "decode" ELSE "respond"

\* The frame has an RMS and it exceeds threshold * 3.5.
Loud(level) ==
    /\ silence_threshold # NoneVal
    /\ level > 0
    /\ level * MarginDen > silence_threshold * MarginNum

\* The frame has RMS ~ 0: all-zero samples, or the lowest level.
Quiet(level) == level <= 1

\* The answers of the voice-activity model that matter for a frame: it is
\* consulted only by voice_activity_detection_main with vadmethod "silero".
SileroInputs ==
    IF stt_processor # "vosk" /\ vadmethod = "silero" THEN SileroOutcomes
    ELSE {"error"}

\* What the vosk recognizer answers to AcceptWaveform for a frame: no result
\* yet, a result, or a result on which utterance_callback raises.
AcceptInputs ==
    IF stt_processor = "vosk" THEN {"partial", "callback_error"} \cup Texts
    ELSE {"partial"}

\* The locals of a backend are gone when it returns or raises.
DropLocals ==
    /\ detected_speech' = FALSE
    /\ silent_frames' = 0
    /\ frames_read' = 0
    /\ buffered' = 0

\* One iteration of the recording loop of a backend: read a frame, classify
\* it, leave on silence, otherwise write it to the buffer (vosk: feed it to
\* the recognizer, which may complete a result).  The loop does not read
\* self.running or self.shutdown_event.
ReadFrame ==
    /\ pc = "recording"
    /\ LoopContinues(frames_read)
    /\ \E read_ok \in BOOLEAN :
        IF ~read_ok
        THEN /\ pc' = "loop"
             /\ DropLocals
             /\ UNCHANGED <<result, history, on_utterance, transcriber_calls>>
        ELSE \E level \in Levels, outcome \in SileroInputs,
                accept \in AcceptInputs :
            LET v == Classify(stt_processor, level, outcome)
                n == frames_read + 1
            IN   /\ all_loud' = (all_loud /\ Loud(level))
                 /\ all_quiet' = (all_quiet /\ Quiet(level))
                 /\ discarded' = (v.is_silence /\ ~v.detected_speech)
                 /\ ended_by_silence' = (v.is_silence /\ v.detected_speech)
                 /\ IF v.is_silence
                    THEN /\ pc' = OnSilence(v.detected_speech)
                         /\ IF v.detected_speech
                            THEN /\ detected_speech' = v.detected_speech
                                 /\ silent_frames' = v.silent_frames
                                 /\ frames_read' = n
                                 /\ buffered' = buffered
                            ELSE DropLocals
                         /\ UNCHANGED <<result, on_utterance, transcriber_calls>>
                    ELSE IF accept # "partial"
                    THEN /\ transcriber_calls' = transcriber_calls + 1
                         /\ on_utterance' = on_utterance + 1
                         /\ result' = IF accept \in Texts THEN accept ELSE NoText
                         /\ pc' = IF accept \in Texts THEN "respond" ELSE "loop"
                         /\ DropLocals
                    ELSE /\ pc' = IF LoopContinues(n) THEN "recording" ELSE "decode"
                         /\ detected_speech' = v.detected_speech
                         /\ silent_frames' = v.silent_frames
                         /\ frames_read' = n
                         /\ buffered' = buffered + 1
                         /\ UNCHANGED <<result, on_utterance, transcriber_calls>>
    /\ UNCHANGED <<config, amplifier, mcp, wake_response,
                   calibration, detector, frame, threads,
                   caller, polls, wake_result,
                   wake_failed, eou_prob, conversation, on_wake, on_post>>

\* audio_buffer.getbuffer().nbytes after the wave file is closed.
WavBytes(frames) == WavHeaderBytes + frames * FrameBytes

\* What the transcriber of a backend answers to the buffered audio: no text,
\* an error, a text, or a text on which utterance_callback raises.
\* _transcribe_with_vosk has no such call: after its loop it returns None.
DecodeOutcomes(processor) ==
    IF processor = "vosk" THEN {"none"}
    ELSE {"null", "error", "callback_error"} \cup Texts

\* The part of a backend after its recording loop.  vosk: return None.
\* _transcribe_with_faster_whisper, _transcribe_silero and
\* _transcribe_with_server: the buffer is handed to the transcriber, and a
\* text is passed to utterance_callback and returned.
Decode ==
    /\ pc = "decode"
    /\ \E o \in DecodeOutcomes(stt_processor) :
        IF o = "none" \/ WavBytes(buffered) = 0
        THEN /\ pc' = "respond"
             /\ UNCHANGED <<result, on_utterance, transcriber_calls>>
        ELSE /\ transcriber_calls' = transcriber_calls + 1
             /\ on_utterance' = IF o \in Texts \cup {"callback_error"}
                                THEN on_utterance + 1 ELSE on_utterance
             /\ result' = IF o \in Texts THEN o ELSE NoText
             /\ pc' = IF o \in Texts \cup {"null"} THEN "respond" ELSE "loop"
    /\ DropLocals
    /\ UNCHANGED <<config, amplifier, mcp, wake_response,
                   calibration, detector, frame, threads,
                   caller, polls, wake_result,
                   wake_failed, eou_prob, conversation, on_wake, on_post,
                   history>>

\* Variant: the window is never trimmed.
AppendTurn_NoTrim(conv, text) == Append(conv, text)

\* self.conversation.append(...); self.conversation = self.conversation[-3:]
AppendTurn(conv, text) ==
    LET c == Append(conv, text) IN
    IF Len(c) > WindowSize THEN SubSeq(c, Len(c) - WindowSize + 1, Len(c)) ELSE c

\* The turn that line 310 appends for a transcribed text.
UserTurn(text) == [role |-> "user", content |-> text]

\* self.conversation as self.turn_detector receives it: every turn of the
\* list was appended by line 310.
Window(conv) == [i \in 1..Len(conv) |-> UserTurn(conv[i])]

\* Variant: the turn detector consulted whatever the window holds.
Consulted_Always(conv) == TRUE

\* if len(self.conversation) >= 3: the turn detector is consulted.
Consulted(conv) == Len(conv) >= WindowSize

\* should_respond = eou_prob > 0.6
ShouldRespond(p) == p > EouThreshold

\* Variant: a backend that returned None treated as one that returned a text.
HasText_Always(r) == TRUE

\* if result and "text" in result
HasText(r) == r # NoText

\* Variant: post_utterance_callback left out.
PostUtterance_Skip(n) == n

\* if self.post_utterance_callback: self.post_utterance_callback()
PostUtterance(n) == n + 1

\* What the collaborators of the last part of _transcribe_utterance do: the
\* turn detector returns a probability or raises, utterance_callback returns
\* or raises.
RespondOutcomes == {"ok", "detector_error", "callback_error"}

\* _transcribe_utterance from the return of the backend on.  The result of
\* the vosk backend is a JSON string: result['text'] raises on it.
Respond ==
    /\ pc = "respond"
    /\ pc' = "loop"
    /\ IF ~HasText(result)
       THEN /\ on_post' = PostUtterance(on_post)
            /\ UNCHANGED <<conversation, on_utterance, eou_prob>>
       ELSE IF stt_processor = "vosk"
       THEN UNCHANGED <<conversation, on_utterance, on_post, eou_prob>>
       ELSE \E p \in EouProbs, o \in RespondOutcomes :
            LET conv == AppendTurn(conversation, result)
                scored == Consulted(conv)
                should_respond == IF scored THEN ShouldRespond(p) ELSE TRUE
            IN  /\ conversation' = conv
                /\ eou_prob' = IF scored /\ o # "detector_error" THEN p
                               ELSE NoneVal
                /\ IF scored /\ o = "detector_error"
                   THEN UNCHANGED <<on_utterance, on_post>>
                   ELSE IF should_respond
                   THEN /\ on_utterance' = on_utterance + 1
                        /\ on_post' = IF o = "callback_error" THEN on_post
                                      ELSE PostUtterance(on_post)
                   ELSE /\ on_post' = PostUtterance(on_post)
                        /\ UNCHANGED on_utterance
    /\ UNCHANGED <<config, amplifier, mcp, wake_response,
                   calibration, detector, frame, threads,
                   caller, polls, wake_result,
                   wake_failed, locals, result, on_wake, transcriber_calls,
                   history>>

\* ----------------------------------------------------------- specification
Worker ==
    \/ LoopCheck
    \/ DetectWakeWord
    \/ PollWakeWord
    \/ BeginRecording
    \/ ReadFrame
    \/ Decode
    \/ Respond

Next ==
    \/ Start
    \/ Stop
    \/ Join
    \/ LoopCheck
    \/ DetectWakeWord
    \/ PollWakeWord
    \/ BeginRecording
    \/ ReadFrame
    \/ Decode
    \/ Respond

Spec == Init /\ [][Next]_vars

\* The worker is a thread of its own and the caller blocked in join() is
\* resumed when it ends: each keeps running while it has a step to take.
FairSpec == Init /\ [][Next]_vars /\ WF_vars(Worker) /\ WF_vars(Join)

\* ------------------------------------------------------------ calibration
\* background_rms_values is kept in ascending order: what the code computes
\* from the list (median, percentile, the fence filter, max) does not depend
\* on the order of its elements.
InsertSorted(values, rms) ==
    LET k == Cardinality({i \in 1..Len(values) : values[i] <= rms})
    IN  SubSeq(values, 1, k) \o <<rms>> \o SubSeq(values, k + 1, Len(values))

\* np.percentile(values, q) with the default linear interpolation, times
\* 100: the virtual index is q / 100 * (n - 1).
Percentile100(values, q) ==
    LET pos  == q * (Len(values) - 1)
        lo   == pos \div 100
        frac == pos % 100
    IN  IF frac = 0 THEN 100 * values[lo + 1]
        ELSE 100 * values[lo + 1] + frac * (values[lo + 2] - values[lo + 1])

\* lower_bound and upper_bound, times 100 * FenceDen.
LowerBound(values) ==
    LET q1 == Percentile100(values, Q1Percent)
        q3 == Percentile100(values, Q3Percent)
    IN  FenceDen * q1 - FenceNum * (q3 - q1)

UpperBound(values) ==
    LET q1 == Percentile100(values, Q1Percent)
        q3 == Percentile100(values, Q3Percent)
    IN  FenceDen * q3 + FenceNum * (q3 - q1)

\* Variant: no sample is removed.
Filtered_All(values) == {values[i] : i \in 1..Len(values)}

\* background_rms[(background_rms >= lower_bound) & (background_rms <= upper_bound)]
Filtered(values) ==
    {values[i] : i \in {j \in 1..Len(values) :
        /\ 100 * FenceDen * values[j] >= LowerBound(values)
        /\ 100 * FenceDen * values[j] <= UpperBound(values)}}

\* np.max
Maximum(S) == CHOOSE x \in S : \A y \in S : y <= x

\* np.median, times 2.
Median2(values) ==
    LET n == Len(values) IN
    IF n % 2 = 1 THEN 2 * values[(n + 1) \div 2]
    ELSE values[n \div 2] + values[n \div 2 + 1]

\* _measure_background_noise after its loop, for a non-empty list.  Line 849
\* stores max(median_rms, 10) in self.silence_threshold and line 858 stores
\* wake_silence_threshold * silence_margin over it: floored is the value of
\* line 849 (times 2), which nothing reads.
_measure_background_noise(values) ==
    LET floored == IF Median2(values) > 2 * ThresholdFloor
                   THEN Median2(values) ELSE 2 * ThresholdFloor
        wake == Maximum(Filtered(values))
    IN  [wake_silence_threshold |-> wake,
         silence_threshold |-> (wake * MarginNum) \div MarginDen]

\* __init__ up to _measure_background_noise: the thresholds are None.  The
\* configuration is not read by the calibration.
CalibrationInit ==
    /\ stt_processor = "vosk"
    /\ wake_word_processor = "picovoice"
    /\ vadmethod = "rms"
    /\ speech_end_silence = MAX_SILENT_FRAMES
    /\ silence_threshold = NoneVal
    /\ wake_silence_threshold = NoneVal
    /\ noise_frames = 0
    /\ background_rms_values = NoSamples
    /\ pc = "init"
    /\ NotStarted
    /\ amp_gain = DefaultGain
    /\ NoServer
    /\ raw_probability = NoneVal
    /\ eou_probability = NoneVal

\* One iteration of the loop of _measure_background_noise; the last one goes
\* on to the thresholds.  With no sample the thresholds stay None.  The
\* levels are even numbers, so that the product with 3.5 is a whole number.
ReadNoiseFrame ==
    /\ pc = "init"
    /\ noise_frames < total_frames
    /\ \E level \in NoiseLevels :
        LET rms == prepare_audio_data(level)
            values == IF rms = NoneVal THEN background_rms_values
                      ELSE InsertSorted(background_rms_values, rms)
        IN  /\ noise_frames' = noise_frames + 1
            /\ data' = [level |-> level, outcome |-> "none"]
            /\ background_rms_values' = values
            /\ IF noise_frames + 1 < total_frames
               THEN UNCHANGED <<pc, silence_threshold, wake_silence_threshold>>
               ELSE /\ pc' = "idle"
                    /\ IF values = NoSamples
                       THEN UNCHANGED <<silence_threshold,
                                        wake_silence_threshold>>
                       ELSE LET m == _measure_background_noise(values) IN
                            /\ wake_silence_threshold' = m.wake_silence_threshold
                            /\ silence_threshold' = m.silence_threshold
    /\ UNCHANGED <<amplifier, mcp, wake_response,
                   stt_processor, wake_word_processor, vadmethod,
                   speech_end_silence, detector, is_silence, threads, caller,
                   polls, locals, conversation, cycle>>

CalibrationNext == ReadNoiseFrame

CalibrationSpec == CalibrationInit /\ [][CalibrationNext]_vars

\* ---------------------------------------------------------- turn detector
\* len(text.split()): the words, or the punctuation alone.
WordCount(u) ==
    IF u.words = <<>> THEN (IF u.tail = "" THEN 0 ELSE 1) ELSE Len(u.words)

\* Variant: three words still count as short.
IsShort_OneMore(n) == n <= ShortWords + 1

\* len(words) <= 2
IsShort(n) == n <= ShortWords

\* hesitation_pattern: um, uh, er or hmm as a word.  Its alternative
\* well\.\.\. needs a word character right after the dots, which a text made
\* of words and final punctuation does not have.
HesitationWords == {"um", "uh", "er", "hmm"}

\* uncertainty_pattern, the single words and the pairs.
UncertaintyWords == {"maybe", "perhaps", "probably", "might", "possibly"}
UncertaintyPairs ==
    {<<"could", "be">>, <<"not", "sure">>, <<"i", "think">>}

\* Variant: the ellipsis pattern matches nothing.
HasEllipsis_Never(tail) == FALSE

\* ellipsis_pattern: three dots or more, or the ellipsis character, at the end.
HasEllipsis(tail) == tail \in {"...", "....", "U+2026"}

\* complete_pattern: the text ends with one of . ! ?
EndsSentence(tail) == tail \in {".", "!", "?", "...", "...."}

\* Variant: the ellipsis is not excluded.
IsComplete_PatternOnly(tail) == EndsSentence(tail)

\* bool(self.complete_pattern.search(text)) and not has_ellipsis
IsComplete(tail) == EndsSentence(tail) /\ ~HasEllipsis(tail)

\* EOUDetector.analyze_utterance
analyze_utterance(u) ==
    [short_utterance |-> IsShort(WordCount(u)),
     hesitation |-> \E i \in 1..Len(u.words) : u.words[i] \in HesitationWords,
     complete |-> IsComplete(u.tail),
     uncertainty |->
        \/ \E i \in 1..Len(u.words) : u.words[i] \in UncertaintyWords
        \/ \E i \in 1..(Len(u.words) - 1) :
               <<u.words[i], u.words[i + 1]>> \in UncertaintyPairs,
     trailing_ellipsis |-> HasEllipsis(u.tail)]

\* Variant: a factor that is never applied.
Adjust_Skip(p, applies, factor) == p

\* if features[...]: eou_probability *= factor
Adjust(p, applies, factor) ==
    IF applies THEN (p * factor) \div FactorDen ELSE p

\* Variant: the result is not clamped.
Clamp_None(p) == p

\* max(0.0, min(1.0, eou_probability))
Clamp(p) == IF p < 0 THEN 0 ELSE IF p > One THEN One ELSE p

\* Variant: every trailing ellipsis is compounded.
Compounds_EllipsisOnly(f) == f.trailing_ellipsis

\* features['trailing_ellipsis'] and (features['short_utterance'] or
\* features['hesitation'])
Compounds(f) ==
    f.trailing_ellipsis /\ (f.short_utterance \/ f.hesitation)

\* EOUDetector.__call__ on a window and the raw score of the estimator for
\* it.  An empty window is returned the raw score as it is.
__call__(conv, raw) ==
    IF conv = <<>> THEN raw
    ELSE
        LET f  == analyze_utterance(conv[Len(conv)])
            p1 == Adjust(raw, f.trailing_ellipsis, EllipsisFactor)
            p2 == Adjust(p1, f.short_utterance, ShortFactor)
            p3 == Adjust(p2, f.hesitation, HesitationFactor)
            p4 == Adjust(p3, f.complete, CompleteFactor)
            p5 == Adjust(p4, f.uncertainty, UncertaintyFactor)
            p6 == Adjust(p5, Compounds(f), CompoundFactor)
        IN  Clamp(p6)

\* An instance after __init__ whose configuration the turn detector does not
\* read, with an empty window.
DetectorInit ==
    /\ stt_processor = "whisper"
    /\ wake_word_processor = "picovoice"
    /\ vadmethod = "rms"
    /\ speech_end_silence = MAX_SILENT_FRAMES
    /\ silence_threshold = NoneVal
    /\ wake_silence_threshold = NoneVal
    /\ noise_frames = total_frames
    /\ background_rms_values = NoSamples
    /\ pc = "idle"
    /\ NotStarted
    /\ amp_gain = DefaultGain
    /\ NoServer
    /\ raw_probability = NoneVal
    /\ eou_probability = NoneVal

\* Lines 310-312 of _transcribe_utterance on a transcribed utterance.
AppendUtterance ==
    /\ \E u \in Utterances : conversation' = AppendTurn(conversation, u)
    /\ raw_probability' = NoneVal
    /\ eou_probability' = NoneVal
    /\ UNCHANGED <<config, amplifier, mcp, wake_response,
                   calibration, frame, threads, caller, pc, polls,
                   locals, cycle>>

\* self.turn_detector(self.conversation), for every score the estimator can
\* give the window.
CallTurnDetector ==
    /\ \E raw \in RawScores :
        /\ raw_probability' = raw
        /\ eou_probability' = __call__(conversation, raw)
    /\ UNCHANGED <<config, amplifier, mcp, wake_response,
                   calibration, frame, threads, caller, pc, polls,
                   locals, conversation, cycle>>

DetectorNext ==
    \/ AppendUtterance
    \/ CallTurnDetector

DetectorSpec == DetectorInit /\ [][DetectorNext]_vars

\* ------------------------------------------------- one classification
\* Amplified RMS levels for a threshold of 14, whose margin threshold is 49:
\* all-zero samples, a level between the two, the margin threshold itself,
\* and one above it.
VadLevels == {0, 48, 49, 50}
\* self.silence_threshold with self.wake_silence_threshold, as
\* _measure_background_noise leaves them: None, or 3.5 times a level of 4.
VadThresholds == {NoneVal, 14}

\* The state after __init__ for every VAD configuration, before the first
\* frame of a recording.
VadInit ==
    /\ stt_processor \in {"vosk", "whisper"}
    /\ wake_word_processor = "picovoice"
    /\ vadmethod \in (IF stt_processor = "whisper" THEN VadMethods ELSE {"rms"})
    /\ silence_threshold \in VadThresholds
    /\ speech_end_silence \in SpeechEndSilences
    /\ wake_silence_threshold =
           (IF silence_threshold = NoneVal THEN NoneVal
            ELSE (silence_threshold * MarginDen) \div MarginNum)
    /\ noise_frames = total_frames
    /\ background_rms_values = NoSamples
    /\ pc = "idle"
    /\ NotStarted
    /\ amp_gain = DefaultGain
    /\ NoServer
    /\ raw_probability = NoneVal
    /\ eou_probability = NoneVal

\* One call of the classification of the configured backend on the next
\* frame, with the detected_speech and silent_frames the call before it
\* returned; a recording loop makes no call after a silence verdict.
ClassifyFrame ==
    /\ ~is_silence
    /\ \E level \in VadLevels, outcome \in SileroOutcomes :
        LET v == Classify(stt_processor, level, outcome)
        IN  /\ data' = [level |-> level, outcome |-> outcome]
            /\ is_silence' = v.is_silence
            /\ detected_speech' = v.detected_speech
            /\ silent_frames' = v.silent_frames
    /\ UNCHANGED <<config, amplifier, mcp, wake_response,
                   calibration, detector, threads, caller, pc, polls,
                   frames_read, buffered, conversation, cycle>>

VadNext == ClassifyFrame

VadSpec == VadInit /\ [][VadNext]_vars

\* ----------------------------------------------------------- amplify_audio
\* np.clip(data * gain, -32768, 32767)
Int16Min == -32768
Int16Max == 32767

\* int16 samples a frame can hold: the two ends of the range, the values
\* around a quarter and a half of it, and small odd and even ones.
Samples ==
    {Int16Min, Int16Min + 1, -16385, -16384, -8193, -8192, -8191, -3, -2, -1,
     0, 1, 2, 3, 8191, 8192, 8193, 16383, 16384, Int16Max - 1, Int16Max}

\* Gains amplify_audio can be called with, as fractions: 0, 0.5, 1.0, 1.5,
\* the default 4.0, -1.0 and -4.0.
Gains ==
    {[num |-> 0, den |-> 1], [num |-> 1, den |-> 2], [num |-> 1, den |-> 1],
     [num |-> 3, den |-> 2], DefaultGain, [num |-> -1, den |-> 1],
     [num |-> -4, den |-> 1]}

\* .astype(np.int16) of a float within the int16 range: the fractional part
\* is dropped.
Truncate(num, den) ==
    IF num >= 0 THEN num \div den ELSE -((-num) \div den)

\* Variant: the product converted to int16 without the clip.
amplify_audio_Wraps(s, g) ==
    ((Truncate(s * g.num, g.den) - Int16Min) % (Int16Max - Int16Min + 1))
        + Int16Min

\* amplify_audio for one sample: data is an int16 array and gain a float, so
\* data * gain is a float64 array, which is clipped and then converted.
amplify_audio(s, g) ==
    LET product == s * g.num IN
    IF product < Int16Min * g.den THEN Int16Min
    ELSE IF product > Int16Max * g.den THEN Int16Max
    ELSE Truncate(product, g.den)

\* An STTManager constructed with any of the gains.
AmplifyInit ==
    /\ stt_processor = "whisper"
    /\ wake_word_processor = "picovoice"
    /\ vadmethod = "rms"
    /\ speech_end_silence = MAX_SILENT_FRAMES
    /\ silence_threshold = NoneVal
    /\ wake_silence_threshold = NoneVal
    /\ noise_frames = total_frames
    /\ background_rms_values = NoSamples
    /\ pc = "idle"
    /\ NotStarted
    /\ amp_gain \in Gains
    /\ NoServer
    /\ raw_probability = NoneVal
    /\ eou_probability = NoneVal

\* amplify_audio(data, self.amp_gain), followed for one sample of the frame.
AmplifyAudio ==
    /\ \E s \in Samples :
        /\ sample' = s
        /\ amplified' = amplify_audio(s, amp_gain)
    /\ UNCHANGED <<config, calibration, detector, frame, threads, mcp,
                   wake_response, amp_gain, caller, pc, polls, locals,
                   conversation, cycle>>

AmplifyNext == AmplifyAudio

AmplifySpec == AmplifyInit /\ [][AmplifyNext]_vars

\* ------------------------------------------------------------ module_mcp
\* SafetyVerifier.RISK_LEVELS, and the order in which a dict yields its keys.
RISK_LEVELS ==
    [low |-> {"read", "list", "get", "query", "view"},
     medium |-> {"write", "update", "modify", "send", "create"},
     high |-> {"delete", "remove", "execute", "run", "system"}]
LevelOrder == <<"low", "medium", "high">>

\* Operation names in lower case, as the words they are made of:
\* read_file, write_file, delete_file, read_and_delete, list_and_write, ping.
Operations ==
    {<<"read", "file">>, <<"write", "file">>, <<"delete", "file">>,
     <<"read", "and", "delete">>, <<"list", "and", "write">>, <<"ping">>}

\* kw in operation.lower(), for the operation names above.
Contains(operation, kw) == \E i \in 1..Len(operation) : operation[i] = kw

\* any(kw in operation.lower() for kw in keywords)
AnyKeyword(operation, level) ==
    \E kw \in RISK_LEVELS[level] : Contains(operation, kw)

\* The loop of lines 67-71: the first level, in the order of the dict, that
\* has a keyword in the operation; "low" when none has.
OperationRisk(operation) ==
    IF \E i \in 1..Len(LevelOrder) : AnyKeyword(operation, LevelOrder[i])
    THEN LevelOrder[CHOOSE i \in 1..Len(LevelOrder) :
                       /\ AnyKeyword(operation, LevelOrder[i])
                       /\ \A j \in 1..(i - 1) :
                              ~AnyKeyword(operation, LevelOrder[j])]
    ELSE "low"

\* What raw_complete_llm can answer: a choice, something that is no
\* number, or an exception.
Responses == {"1", "2", "3", "x", "raise"}

\* int(response.strip())
ToInt(response) ==
    IF response = "1" THEN 1 ELSE IF response = "2" THEN 2 ELSE 3

\* What verify_operation hands back: approved, or the exception it raised.
Verification(verdict, risk, c) ==
    [approved |-> verdict, operation_risk |-> risk, choice |-> c]

\* if risk_level == "low" and any(kw in operation.lower() for kw in
\* RISK_LEVELS["low"])
AutoApproved(operation, level) ==
    level = "low" /\ AnyKeyword(operation, "low")

\* SafetyVerifier.verify_operation.  r1 and r2 are the answers to the safety
\* check and to the question after the preview.  raw_complete_llm is called
\* outside the try: its exception leaves verify_operation; an answer that
\* is no number is caught (lines 104-105).
verify_operation(operation, level, r1, r2) ==
    IF AutoApproved(operation, level)
    THEN Verification("approved", "none", NoneVal)
    ELSE LET risk == OperationRisk(operation) IN
         IF r1 = "raise" THEN Verification("raised", risk, NoneVal)
         ELSE IF r1 = "x" THEN Verification("cancelled", risk, NoneVal)
         ELSE IF ToInt(r1) # 2
         THEN Verification(IF ToInt(r1) = 1 THEN "approved" ELSE "cancelled",
                           risk, ToInt(r1))
         ELSE IF r2 = "raise" THEN Verification("raised", risk, ToInt(r1))
         ELSE IF r2 = "x" THEN Verification("cancelled", risk, ToInt(r1))
         ELSE Verification(IF ToInt(r2) = 1 THEN "approved" ELSE "cancelled",
                           risk, ToInt(r2))

\* Variant: the capability executed whatever the verification said.
Executes_Always(verdict) == TRUE

\* if not approved: return "Operation cancelled"; an exception of the
\* verification leaves the try before the execution.
Executes(verdict) == verdict = "approved"

\* An MCPClient after initialize_mcp: the server is connected or not.
McpInit ==
    /\ stt_processor = "whisper"
    /\ wake_word_processor = "picovoice"
    /\ vadmethod = "rms"
    /\ speech_end_silence = MAX_SILENT_FRAMES
    /\ silence_threshold = NoneVal
    /\ wake_silence_threshold = NoneVal
    /\ noise_frames = total_frames
    /\ background_rms_values = NoSamples
    /\ pc = "idle"
    /\ NotStarted
    /\ amp_gain = DefaultGain
    /\ risk_level \in {"low", "medium", "high"}
    /\ sessions \in BOOLEAN
    /\ raw_probability = NoneVal
    /\ eou_probability = NoneVal

\* MCPClient.process_query for one server.  ok is whether
\* _execute_capability returns a result or raises.  The feedback handlers
\* cannot fail the query: _handle_feedback catches what they raise.
ProcessQuery ==
    /\ executed < MaxExecutions
    /\ \E operation \in Operations, r1 \in Responses, r2 \in Responses,
          ok \in BOOLEAN :
        /\ query' = operation
        /\ IF ~sessions
           THEN /\ returned' = "error"
                /\ approved' = "none"
                /\ operation_risk' = "none"
                /\ choice' = NoneVal
                /\ UNCHANGED <<executed, conversation_context>>
           ELSE LET v == verify_operation(operation, risk_level, r1, r2) IN
                /\ approved' = v.approved
                /\ operation_risk' = v.operation_risk
                /\ choice' = v.choice
                /\ IF ~Executes(v.approved)
                   THEN /\ returned' = IF v.approved = "raised" THEN "error"
                                       ELSE "cancelled"
                        /\ UNCHANGED <<executed, conversation_context>>
                   ELSE /\ executed' = executed + 1
                        /\ returned' = IF ok THEN "result" ELSE "error"
                        /\ conversation_context' =
                               IF ok THEN Append(conversation_context, operation)
                               ELSE conversation_context
    /\ UNCHANGED <<config, calibration, detector, frame, threads, amplifier,
                   wake_response, risk_level, sessions, caller, pc, polls,
                   locals, conversation, cycle>>

McpNext == ProcessQuery

McpSpec == McpInit /\ [][McpNext]_vars

\* ------------------------------------------------------ start() and stop()
\* An instance after __init__ on which the application calls start() and
\* stop() in any order.
LifecycleInit ==
    /\ stt_processor = "whisper"
    /\ wake_word_processor = "picovoice"
    /\ vadmethod = "rms"
    /\ speech_end_silence = MAX_SILENT_FRAMES
    /\ silence_threshold = NoneVal
    /\ wake_silence_threshold = NoneVal
    /\ noise_frames = total_frames
    /\ background_rms_values = NoSamples
    /\ pc = "idle"
    /\ NotStarted
    /\ amp_gain = DefaultGain
    /\ NoServer
    /\ raw_probability = NoneVal
    /\ eou_probability = NoneVal

\* The caller is not blocked in the join of stop().
CallerFree == stop_pc # "joining"

\* STTManager.start: nothing is tested, a thread is created and started and
\* self.thread names it.
StartThread ==
    /\ CallerFree
    /\ Len(threads) < MaxStarts
    /\ running' = TRUE
    /\ threads' = Append(threads, "loop")
    /\ UNCHANGED <<config, amplifier, mcp, wake_response,
                   calibration, detector, frame, shutdown, stop_pc,
                   stop_in_recording, pc, polls, locals, conversation, cycle>>

\* STTManager.stop up to the join, on an instance that has a thread.
StopThreads ==
    /\ CallerFree
    /\ threads # <<>>
    /\ running' = FALSE
    /\ shutdown' = TRUE
    /\ stop_pc' = "joining"
    /\ UNCHANGED <<config, amplifier, mcp, wake_response,
                   calibration, detector, frame, threads,
                   stop_in_recording, pc, polls, locals, conversation, cycle>>

\* self.thread.join(): the thread start() created last has ended.
JoinThread ==
    /\ stop_pc = "joining"
    /\ threads[Len(threads)] = "stopped"
    /\ stop_pc' = "returned"
    /\ UNCHANGED <<config, amplifier, mcp, wake_response,
                   calibration, detector, frame, threads, running,
                   shutdown, stop_in_recording, pc, polls, locals,
                   conversation, cycle>>

\* A step of one thread in _stt_processing_loop: the loop condition, the
\* whole of _detect_wake_word with what it returns, or the whole of
\* _transcribe_utterance.
ThreadStep ==
    /\ \E i \in 1..Len(threads), ret \in BOOLEAN :
        /\ threads[i] # "stopped"
        /\ threads' = [threads EXCEPT ![i] =
               IF threads[i] = "transcribe" THEN "loop"
               ELSE IF threads[i] = "detect" THEN LoopBody(ret)
               ELSE IF LoopCondition(running, shutdown) THEN "detect"
               ELSE "stopped"]
    /\ UNCHANGED <<config, amplifier, mcp, wake_response,
                   calibration, detector, frame, caller, pc, polls,
                   locals, conversation, cycle>>

LifecycleNext ==
    \/ StartThread
    \/ StopThreads
    \/ JoinThread
    \/ ThreadStep

LifecycleSpec == LifecycleInit /\ [][LifecycleNext]_vars

\* ================================================================ claims
\* Every frame of the recording is classified by _is_silence_detected_rms:
\* the vosk backend calls it, the others reach it with vadmethod "rms".
AmplitudeVAD == stt_processor = "vosk" \/ vadmethod = "rms"

\* The worker is inside _transcribe_utterance.
RecordingPcs == {"transcribe", "recording", "decode", "respond"}

\* The worker thread has ended.
WorkerEnded == pc \in {"stopped", "crashed"}

C2_RecordingBounded ==
    /\ frames_read <= MAX_RECORDING_FRAMES
    /\ (pc = "recording" => frames_read < MAX_RECORDING_FRAMES)

\* The cap is reached with a VAD that fails on every frame.
C2_Witness ==
    /\ pc = "decode"
    /\ frames_read = MAX_RECORDING_FRAMES
    /\ silence_threshold = NoneVal
    /\ ~detected_speech

C4_SilenceOnlyDiscarded ==
    (/\ stt_processor = "whisper"
     /\ vadmethod = "rms"
     /\ silence_threshold # NoneVal
     /\ all_quiet)
        => /\ ~detected_speech
           /\ transcriber_calls = 0
           /\ on_utterance = 0
           /\ pc # "decode"

\* C5: once the silence run has exceeded the cap with no speech detected,
\* the recording has no result, the transcriber is not called, no utterance
\* is emitted and the conversation window keeps its value.
C5_EmptyUtteranceDiscarded ==
    [][discarded' => /\ result' = NoText
                     /\ transcriber_calls' = 0
                     /\ on_utterance' = 0
                     /\ pc' \in {"respond", "loop"}
                     /\ conversation' = conversation]_vars

\* The cycle of a discarded recording has completed.
C5_Witness ==
    /\ discarded
    /\ pc = "loop"
    /\ on_post = 1
    /\ Len(conversation) > 0

\* C6: for every backend, when the recording ended on silence after speech
\* the transcriber has been invoked exactly once by the time the backend
\* has returned.
C6_FinalizedOnce ==
    (ended_by_silence /\ pc \in {"respond", "loop"}) => transcriber_calls = 1

\* C7: the worker enters _transcribe_utterance only from the wake detection
\* and only when it returned True; a detection that returned False never
\* leads into the recording.
C7_WakeGating ==
    [][/\ (pc' \in RecordingPcs /\ pc \notin RecordingPcs)
            => (pc = "listening" /\ pc' = "transcribe")
       /\ pc' \in RecordingPcs => wake_result']_vars

C7_Witness ==
    /\ pc = "recording"
    /\ wake_result
    /\ on_wake = 1
    /\ frames_read > 0

\* C8: when stop() is called while the worker is recording, the cycle ends
\* with no transcriber call and no utterance_callback call.
C8_NoUtteranceAfterShutdown ==
    stop_in_recording => (transcriber_calls = 0 /\ on_utterance = 0)

\* C9: once the shutdown flag is set, the worker thread ends and the join of
\* stop() returns.
C9_ShutdownLiveness == shutdown ~> (WorkerEnded /\ stop_pc = "returned")

\* C10: the worker thread ends only when shutdown was signalled.
C10_LoopEndsOnlyOnShutdown == WorkerEnded => shutdown

\* C11: when the wake detector of either backend fails, the detection
\* returns False, wake_word_callback has not been called and the worker does
\* not enter _transcribe_utterance in that cycle.
C11_DetectorFailureIsNoMatch ==
    wake_failed => /\ ~wake_result
                   /\ on_wake = 0
                   /\ pc \notin RecordingPcs
                   /\ transcriber_calls = 0

C11_Witness ==
    /\ wake_failed
    /\ pc = "loop"
    /\ ~wake_result
    /\ on_wake = 0
    /\ ~shutdown

\* The turn detector has returned for the window in self.conversation.
DetectorReturned == raw_probability # NoneVal

\* The probability p times a factor given in twentieths.
Times(p, factor) == (p * factor) \div FactorDen

\* The last utterance of the window.
Current == conversation[Len(conversation)]

\* C12: for every window whose last utterance is "Yes." and every raw score
\* in (0,1], the returned probability is the raw score times 0.85 (one word
\* is a short utterance) times 1.15, which is strictly lower than the raw
\* score.
C12_YesShortAndComplete ==
    (/\ DetectorReturned
     /\ conversation # <<>>
     /\ Current = Yes
     /\ raw_probability > 0)
        => /\ eou_probability =
                Times(Times(raw_probability, ShortFactor), CompleteFactor)
           /\ eou_probability < raw_probability

C12_Witness ==
    /\ DetectorReturned
    /\ conversation # <<>>
    /\ Current = Yes
    /\ raw_probability = One
    /\ eou_probability < One

\* C12 as stated: for every window whose last utterance is "Yes." and every
\* raw score in (0,1], the returned probability is strictly higher than the
\* raw score.
C12_YesStrictlyHigher ==
    (/\ DetectorReturned
     /\ conversation # <<>>
     /\ Current = Yes
     /\ raw_probability > 0)
        => eou_probability > raw_probability

\* C13: for every window of exactly 3 turns whose last utterance is
\* "I think maybe..." and every raw score in (0,1], the returned probability
\* is strictly lower than the raw score; for the raw score 0 it is 0.
C13_IThinkMaybeLower ==
    (/\ DetectorReturned
     /\ Len(conversation) = WindowSize
     /\ Current = IThinkMaybe)
        => /\ raw_probability > 0 => eou_probability < raw_probability
           /\ raw_probability = 0 => eou_probability = 0

C13_Witness ==
    /\ DetectorReturned
    /\ Len(conversation) = WindowSize
    /\ Current = IThinkMaybe
    /\ raw_probability = One
    /\ eou_probability < One

\* C13 as stated: for every window of exactly 3 turns whose last utterance
\* is "I think maybe..." and every raw score in [0,1], the returned
\* probability is strictly lower than the raw score.
C13_IThinkMaybeStrictlyLower ==
    (/\ DetectorReturned
     /\ Len(conversation) = WindowSize
     /\ Current = IThinkMaybe)
        => eou_probability < raw_probability

\* C14: for the utterance "I think maybe..." the adjustments applied to the
\* raw score are exactly the trailing-ellipsis factor 0.3 and the
\* uncertainty factor 0.95: three words are not a short utterance and there
\* is no hesitation marker, so the compounding factor 0.8 does not apply.
C14_IThinkMaybeAdjustments ==
    (/\ DetectorReturned
     /\ conversation # <<>>
     /\ Current = IThinkMaybe)
        => /\ analyze_utterance(Current) =
                [short_utterance |-> FALSE, hesitation |-> FALSE,
                 complete |-> FALSE, uncertainty |-> TRUE,
                 trailing_ellipsis |-> TRUE]
           /\ eou_probability =
                Times(Times(raw_probability, EllipsisFactor),
                      UncertaintyFactor)

C14_Witness ==
    /\ DetectorReturned
    /\ conversation # <<>>
    /\ Current = IThinkMaybe
    /\ raw_probability = Step
    /\ eou_probability > 0

\* C14 as stated: for the utterance "I think maybe..." the returned
\* probability is the raw score times 0.3, 0.95 and 0.8.
C14_IThinkMaybeCompounded ==
    (/\ DetectorReturned
     /\ conversation # <<>>
     /\ Current = IThinkMaybe)
        => eou_probability =
             Times(Times(Times(raw_probability, EllipsisFactor),
                         UncertaintyFactor), CompoundFactor)

\* C15: for every window and every raw score in [0,1], the probability the
\* detector returns lies in [0,1].
C15_ProbabilityClamped ==
    DetectorReturned => (eou_probability >= 0 /\ eou_probability <= One)

\* The product of the adjustments exceeded 1 and was clamped.
C15_Witness ==
    /\ DetectorReturned
    /\ conversation # <<>>
    /\ Current = TurnItOff
    /\ raw_probability = One
    /\ eou_probability = One

\* C16: when the window holds at least 3 turns and the turn detector was
\* consulted, utterance_callback has been called in the cycle if and only if
\* the returned probability is above 0.6.
C16_SemanticThreshold ==
    (pc = "loop" /\ eou_prob # NoneVal)
        => (on_utterance > 0 <=> eou_prob > EouThreshold)

\* C17: when the window holds fewer than 3 turns after the transcribed
\* utterance was appended, _transcribe_utterance does not consult the turn
\* detector and calls utterance_callback.
C17_AcousticOnly ==
    [][(/\ pc = "respond"
        /\ pc' = "loop"
        /\ result # NoText
        /\ stt_processor # "vosk"
        /\ Len(conversation') < WindowSize)
            => /\ conversation' = Append(conversation, result)
               /\ eou_prob' = NoneVal
               /\ on_utterance' = on_utterance + 1]_vars

C17_Witness ==
    /\ pc = "loop"
    /\ result # NoText
    /\ stt_processor # "vosk"
    /\ Len(conversation) = WindowSize - 1
    /\ eou_prob = NoneVal
    /\ on_utterance = 2

\* C18: the window never holds more than 3 turns, and every update puts the
\* new turn last, keeps the others in their order and, when the window was
\* full, drops the oldest one.
C18_RollingWindow ==
    [][/\ Len(conversation') <= WindowSize
       /\ conversation' # conversation =>
            LET kept == IF Len(conversation) < WindowSize THEN conversation
                        ELSE Tail(conversation)
            IN  /\ Len(conversation') = Len(kept) + 1
                /\ SubSeq(conversation', 1, Len(kept)) = kept]_vars

\* A full window after an eviction, its turns all different.
C18_Witness ==
    /\ conversation = <<IThinkMaybe, TurnItOff, Yes>>
    /\ DetectorReturned

\* The calibration has run with at least one sample.
Calibrated == pc = "idle" /\ background_rms_values # NoSamples

\* The sample lies within [Q1 - 1.5 IQR, Q3 + 1.5 IQR].
WithinFence(x) ==
    /\ 100 * FenceDen * x >= LowerBound(background_rms_values)
    /\ 100 * FenceDen * x <= UpperBound(background_rms_values)

\* C19: after calibration the wake-level threshold is the largest sample
\* within [Q1 - 1.5 IQR, Q3 + 1.5 IQR] and the silence threshold is that
\* value times 3.5; for the samples 10, 10, 10, 10, 100 they are 10 and 35.
C19_IqrFilter ==
    Calibrated =>
        /\ \E i \in 1..Len(background_rms_values) :
               /\ background_rms_values[i] = wake_silence_threshold
               /\ WithinFence(background_rms_values[i])
        /\ \A i \in 1..Len(background_rms_values) :
               WithinFence(background_rms_values[i])
                   => background_rms_values[i] <= wake_silence_threshold
        /\ MarginDen * silence_threshold = MarginNum * wake_silence_threshold
        /\ background_rms_values = <<10, 10, 10, 10, 100>>
               => (wake_silence_threshold = 10 /\ silence_threshold = 35)

C19_Witness ==
    /\ Calibrated
    /\ background_rms_values = <<10, 10, 10, 10, 100>>
    /\ wake_silence_threshold = 10
    /\ silence_threshold = 35

\* C20: after calibration with at least one sample, the silence threshold
\* is at least the floor of 10.
C20_ThresholdFloor == Calibrated => silence_threshold >= ThresholdFloor

\* C21: in every state after calibration the silence threshold is a number,
\* also when no ambient frame gave an RMS sample.
C21_DefaultThreshold == pc = "idle" => silence_threshold # NoneVal

\* The threads that are running the session loop.
LiveThreads == {i \in 1..Len(threads) : threads[i] # "stopped"}

\* C22: after any sequence of start() and stop() calls at most one thread
\* runs the session loop.
C22_SingleSession == Cardinality(LiveThreads) <= 1

\* The configured classification is the model-based one.
ModelVAD == stt_processor # "vosk" /\ vadmethod = "silero"

\* C23: when the voice-activity model raises or is not loaded for a frame,
\* the classification returns what _is_silence_detected_rms returns for that
\* frame with the same detected_speech and silent_frames.
C23_ModelVadFallsBack ==
    [][(ModelVAD /\ data'.outcome = "error")
        => LET v == _is_silence_detected_rms(data'.level, silence_threshold,
                                             detected_speech, silent_frames)
           IN  /\ is_silence' = v.is_silence
               /\ detected_speech' = v.detected_speech
               /\ silent_frames' = v.silent_frames]_vars

\* The fallback counted a quiet frame.
C23_Witness ==
    /\ ModelVAD
    /\ data.outcome = "error"
    /\ data.level = 48
    /\ silence_threshold # NoneVal
    /\ silent_frames = 1

\* C24: with a calibrated threshold and a frame that has an RMS, the
\* amplitude VAD sets detected_speech and resets the run when the RMS is
\* strictly above threshold * 3.5, and otherwise adds exactly 1 to the run
\* and leaves detected_speech as it was.
C24_AmplitudeStep ==
    [][(/\ AmplitudeVAD
        /\ silence_threshold # NoneVal
        /\ data'.level > 0)
        => IF data'.level * MarginDen > silence_threshold * MarginNum
           THEN /\ detected_speech'
                /\ silent_frames' = 0
                /\ ~is_silence'
           ELSE /\ detected_speech' = detected_speech
                /\ silent_frames' = silent_frames + 1]_vars

\* A frame exactly at the margin threshold was counted as silence.
C24_Witness ==
    /\ AmplitudeVAD
    /\ silence_threshold # NoneVal
    /\ data.level * MarginDen = silence_threshold * MarginNum
    /\ silent_frames = 1
    /\ ~detected_speech

\* C25: for a frame with no RMS the amplitude VAD returns no silence
\* verdict and the detected_speech and silent_frames it was given.
C25_NoRmsNoCount ==
    [][(AmplitudeVAD /\ data'.level = 0)
        => /\ ~is_silence'
           /\ detected_speech' = detected_speech
           /\ silent_frames' = silent_frames]_vars

\* An all-zero frame after a counted one.
C25_Witness ==
    /\ AmplitudeVAD
    /\ silence_threshold # NoneVal
    /\ data.level = 0
    /\ silent_frames = MAX_SILENT_FRAMES
    /\ ~is_silence

\* C26: for a frame the model finds no speech in, the model-based VAD
\* returns a silence verdict exactly when the run exceeds MAX_SILENT_FRAMES.
C26_SameSilenceCap ==
    (/\ ModelVAD
     /\ silence_threshold # NoneVal
     /\ data.outcome = "empty")
        => (is_silence <=> silent_frames > MAX_SILENT_FRAMES)

\* C27: with a threshold that calibration set to 3.5 times the wake level,
\* the amplitude VAD takes a frame that has an RMS for speech exactly when
\* the RMS is above that threshold.
C27_MarginAppliedOnce ==
    (/\ AmplitudeVAD
     /\ silence_threshold # NoneVal
     /\ MarginDen * silence_threshold = MarginNum * wake_silence_threshold
     /\ data.level > 0)
        => (data.level > silence_threshold
                <=> (detected_speech /\ silent_frames = 0))

\* C28: in calibration an all-zero frame leaves the list of samples as it
\* is, every other frame adds its RMS to it, and the list never holds a 0.
C28_ZeroFramesSkipped ==
    [][/\ data'.level = 0 => background_rms_values' = background_rms_values
       /\ data'.level # 0 =>
            /\ Len(background_rms_values') = Len(background_rms_values) + 1
            /\ \E i \in 1..Len(background_rms_values') :
                   background_rms_values'[i] = data'.level
       /\ \A i \in 1..Len(background_rms_values') :
              background_rms_values'[i] # 0]_vars

\* Calibration ended on an all-zero frame with fewer samples than frames.
C28_Witness ==
    /\ pc = "idle"
    /\ noise_frames = total_frames
    /\ data.level = 0
    /\ background_rms_values = <<2, 10, 10>>
    /\ wake_silence_threshold = 10

\* A factor that is applied when its feature holds.
Scaled(p, holds, factor) == IF holds THEN Times(p, factor) ELSE p

\* C29: the returned probability is the raw score times the factor of every
\* feature of the last utterance that holds, times 0.8 if and only if it
\* has a trailing ellipsis and is short or hesitant, clamped to [0,1].
C29_ProductOfFactors ==
    (DetectorReturned /\ conversation # <<>>)
        => LET f == analyze_utterance(Current)
               compound == f.trailing_ellipsis
                           /\ (WordCount(Current) <= ShortWords \/ f.hesitation)
               p == Scaled(Scaled(Scaled(Scaled(Scaled(Scaled(
                        raw_probability,
                        f.trailing_ellipsis, EllipsisFactor),
                        f.short_utterance, ShortFactor),
                        f.hesitation, HesitationFactor),
                        f.complete, CompleteFactor),
                        f.uncertainty, UncertaintyFactor),
                        compound, CompoundFactor)
           IN  eou_probability = IF p > One THEN One ELSE p

\* Hesitant and not short, with a trailing ellipsis: 0.3, 0.9 and 0.8.
C29_Witness ==
    /\ DetectorReturned
    /\ conversation # <<>>
    /\ Current = UmIWasThinking
    /\ raw_probability = One
    /\ eou_probability =
           Times(Times(Times(One, EllipsisFactor), HesitationFactor),
                 CompoundFactor)

\* C30: no utterance is both complete and ending in an ellipsis: the
\* factors 1.15 and 0.3 are never applied together.
C30_CompleteExcludesEllipsis ==
    (DetectorReturned /\ conversation # <<>>)
        => LET f == analyze_utterance(Current)
           IN  /\ ~(f.complete /\ f.trailing_ellipsis)
               /\ Current.tail \in {"...", "....", "U+2026"} => ~f.complete

\* Three dots end with a dot and are an ellipsis: 0.3, 0.85 and 0.8 only.
C30_Witness ==
    /\ DetectorReturned
    /\ conversation # <<>>
    /\ Current = WellEllipsis
    /\ raw_probability = One
    /\ eou_probability =
           Times(Times(Times(One, EllipsisFactor), ShortFactor),
                 CompoundFactor)

\* The roles of the turns of a window, oldest first.
Roles(w) == [i \in 1..Len(w) |-> w[i].role]

\* C31: when the turn detector has been consulted in a cycle, the window it
\* received holds 3 turns with the roles user, assistant, user.
C31_UserAssistantUser ==
    (pc = "loop" /\ eou_prob # NoneVal)
        => /\ Len(conversation) = WindowSize
           /\ Roles(Window(conversation)) = <<"user", "assistant", "user">>

\* C32: wake_word_callback is called at most once in a cycle, only by the
\* wake detection, with a phrase of WAKE_WORD_RESPONSES and not in a cycle
\* in which the detector failed; every detection that returns a match has
\* called it exactly once, and no frame of the recording is read before it.
C32_WakeAcknowledgment ==
    [][/\ on_wake' <= 1
       /\ on_wake' > on_wake =>
            /\ pc = "listening"
            /\ wake_response' \in WAKE_WORD_RESPONSES
            /\ ~wake_failed'
            /\ frames_read' = 0
       /\ (pc = "listening" /\ wake_result') =>
            /\ on_wake' = 1
            /\ wake_response' \in WAKE_WORD_RESPONSES
       /\ pc' \in RecordingPcs => on_wake' = 1
       /\ pc \in RecordingPcs => on_wake' = on_wake]_vars

\* The detection has just returned a match, no frame has been read.
C32_Witness ==
    /\ pc = "transcribe"
    /\ wake_result
    /\ on_wake = 1
    /\ wake_response = "You rang?"
    /\ frames_read = 0

\* C33: utterance_callback is called at most once in a recording cycle,
\* whatever the backend.
C33_UtteranceOnce == on_utterance <= 1

\* C34: when the transcriber was called and the backend returned None, the
\* cycle calls utterance_callback at no point, leaves the conversation
\* window as it is and goes back to the session loop.
C34_NullTranscription ==
    [][/\ (/\ pc = "decode"
           /\ pc' = "respond"
           /\ transcriber_calls' = transcriber_calls + 1
           /\ result' = NoText)
            => /\ on_utterance' = 0
               /\ conversation' = conversation
       /\ (/\ pc = "respond"
           /\ pc' # pc
           /\ transcriber_calls = 1
           /\ result = NoText)
            => /\ pc' = "loop"
               /\ on_utterance' = 0
               /\ conversation' = conversation]_vars

\* The cycle of an utterance with speech for which nothing was decoded.
C34_Witness ==
    /\ pc = "loop"
    /\ stt_processor = "whisper"
    /\ ended_by_silence
    /\ transcriber_calls = 1
    /\ result = NoText
    /\ on_utterance = 0
    /\ on_post = 1
    /\ conversation = <<>>

\* C35: during a recording the silence run never exceeds
\* MAX_SILENT_FRAMES + 1.
C35_RunBounded ==
    pc \in {"recording", "decode"} => silent_frames <= MAX_SILENT_FRAMES + 1

\* C36: a recording starts with detected_speech false and a run of 0; the
\* flag becomes true on a frame that resets the run, and no later frame of
\* the recording makes it false again.
C36_DetectedSpeechMonotone ==
    [][/\ (pc = "transcribe" /\ pc' = "recording")
            => (~detected_speech' /\ silent_frames' = 0)
       /\ (pc = "recording" /\ pc' \in {"recording", "decode"})
            => /\ detected_speech => detected_speech'
               /\ (~detected_speech /\ detected_speech')
                    => silent_frames' = 0]_vars

\* Speech, then silent frames counted up to the cap, the flag still set.
C36_Witness ==
    /\ pc = "recording"
    /\ silence_threshold # NoneVal
    /\ detected_speech
    /\ silent_frames = MAX_SILENT_FRAMES
    /\ frames_read > MAX_SILENT_FRAMES

\* C37: post_utterance_callback is called at most once in a cycle, only as
\* the last thing _transcribe_utterance does and never before an
\* utterance_callback of the cycle; it is called when the backend returned
\* None and when the turn detector withheld the utterance, and not when the
\* cycle ended in an exception.
C37_PostUtteranceOnce ==
    [][/\ on_post' <= 1
       /\ on_post' > on_post => (pc = "respond" /\ pc' = "loop")
       /\ on_utterance' > on_utterance => on_post = 0
       /\ (pc = "respond" /\ pc' = "loop" /\ result = NoText)
            => on_post' = 1
       /\ (/\ pc = "respond"
           /\ pc' = "loop"
           /\ eou_prob' # NoneVal
           /\ eou_prob' <= EouThreshold)
            => (on_post' = 1 /\ on_utterance' = on_utterance)
       /\ (/\ pc = "respond"
           /\ pc' = "loop"
           /\ result # NoText
           /\ stt_processor = "vosk")
            => on_post' = 0
       /\ (pc \in {"transcribe", "recording", "decode"} /\ pc' = "loop")
            => on_post' = 0]_vars

\* A cycle in which the utterance was emitted twice and the callback followed.
C37_Witness ==
    /\ pc = "loop"
    /\ stt_processor = "whisper"
    /\ Len(conversation) = WindowSize
    /\ eou_prob > EouThreshold
    /\ on_utterance = 2
    /\ on_post = 1

\* sample * gain, times the denominator of the gain.
Product == sample * amp_gain.num

C39_ApprovalGate ==
    [][/\ executed' > executed => (sessions /\ approved' = "approved")
       /\ approved' \in {"cancelled", "raised"} => executed' = executed
       /\ returned' \in {"cancelled", "error"} =>
            conversation_context' = conversation_context
       /\ conversation_context' # conversation_context =>
            /\ executed' = executed + 1
            /\ returned' = "result"
            /\ conversation_context' = Append(conversation_context, query')]_vars

\* A cancelled query after an executed one: one execution, one entry.
C39_Witness ==
    /\ sessions
    /\ approved = "cancelled"
    /\ returned = "cancelled"
    /\ choice = 3
    /\ executed = 1
    /\ Len(conversation_context) = 1

\* The operation name has a keyword of the level.
HasKeyword(level) == AnyKeyword(query, level)

\* low, medium, high as 1, 2, 3.
Rank(level) == CHOOSE i \in 1..Len(LevelOrder) : LevelOrder[i] = level

\* C40: an operation whose name has a medium- or high-risk keyword is
\* approved only with a confirmation choice of 1, and the risk level
\* verify_operation gives it is not below the level of any of its keywords.
C40_AutoApprovalLowRiskOnly ==
    /\ (/\ approved = "approved"
        /\ (HasKeyword("medium") \/ HasKeyword("high")))
            => choice = 1
    /\ operation_risk # "none" =>
            \A i \in 1..Len(LevelOrder) :
                HasKeyword(LevelOrder[i]) => Rank(operation_risk) >= i

====
